---- MODULE Spec2Model ----
(***************************************************************************)
(* Model of Nuitka's constant reference nodes (nodes/ConstantRefNodes.py), *)
(* built-in type constructor nodes (nodes/BuiltinTypeNodes.py) and the C   *)
(* literal encoders (utils/CStrings.py).                                   *)
(*                                                                         *)
(* Texts and byte strings are sequences of character codes.                *)
(***************************************************************************)
EXTENDS Integers, Sequences, FiniteSets, TLC

VARIABLES
    enc_value,      \* CStrings: the bytes handed to encodePythonStringToC
    enc_result,     \* CStrings: the text it returned
    enc_done,       \* CStrings: whether encodePythonStringToC has run
    id_a, id_b,     \* CStrings: two identifiers handed to encodePythonIdentifierToC
    id_enc_a,       \* CStrings: the encoded form of id_a
    id_enc_b,       \* CStrings: the encoded form of id_b
    id_done,        \* CStrings: whether the identifiers were encoded
    py3,            \* whether python_version >= 300
    base_only_value,\* ExpressionBuiltinIntLongBase.base_only_value
    is_debug,       \* Options.isDebug()
    node,           \* the expression node in the optimizer's slot
    built_from,     \* the operands the node's constructor was called with
    last            \* the last operation: its receiver, result and notifications

enc_vars == <<enc_value, enc_result, enc_done>>
id_vars == <<id_a, id_b, id_enc_a, id_enc_b, id_done>>
node_vars == <<py3, base_only_value, is_debug, node, built_from, last>>
vars == <<enc_vars, id_vars, node_vars>>

(***************************************************************************)
(* Bounds of the explored inputs.                                          *)
(***************************************************************************)
MaxStrLen == 3          \* longest payload over StrAlphabet
MaxChunks == 1          \* how many full chunks precede the boundary bytes
MaxIdLen == 4           \* longest identifier
MaxCount == 3           \* largest index asked of getIterationValue

\* Character codes used below.
QUOTE == 34
SPACE == 32
BACKSLASH == 92

\* All sequences over S of length 0..n.
SeqsUpTo(S, n) == UNION {[1..k -> S] : k \in 0..n}

(***************************************************************************)
(* utils/CStrings.py                                                       *)
(***************************************************************************)

\* r'\%o' % cv, the digits: the octal numeral of cv without leading zeros.
RECURSIVE OctalDigits(_)
OctalDigits(cv) ==
    IF cv < 8 THEN <<48 + cv>>
    ELSE Append(OctalDigits(cv \div 8), 48 + (cv % 8))

\* r'\%o' % cv
OctalEscape(cv) == <<BACKSLASH>> \o OctalDigits(cv)

\* b'\\\t\r\n"?'
EscapedAlways == {BACKSLASH, 9, 13, 10, QUOTE, 63}

\* b'0123456789'
DecimalDigitBytes == 48..57

\* One iteration of the loop of _encodePythonStringToC: the text appended to
\* result for byte c, and the value of the flag octal afterwards.
\* (variant that leaves out the literal break before a decimal digit)
EncodeByteNoBreak(octal, c) ==
    IF c \in EscapedAlways
    THEN [result |-> OctalEscape(c), octal |-> TRUE]
    ELSE IF c >= 32 /\ c <= 127
    THEN [result |-> <<c>>, octal |-> FALSE]
    ELSE [result |-> OctalEscape(c), octal |-> TRUE]

EncodeByte(octal, c) ==
    IF c \in EscapedAlways
    THEN [result |-> OctalEscape(c), octal |-> TRUE]
    ELSE IF c >= 32 /\ c <= 127
    THEN [result |-> (IF octal /\ c \in DecimalDigitBytes
                      THEN <<QUOTE, SPACE, QUOTE>> ELSE <<>>) \o <<c>>,
          octal |-> FALSE]
    ELSE [result |-> OctalEscape(c), octal |-> TRUE]

\* The loop "for c in value" over value[lo..hi], entered with the flag octal.
\* The range is split in halves so that evaluation depth stays logarithmic;
\* the flag is threaded left to right exactly as the loop does.
RECURSIVE EncodeLoop(_, _, _, _)
EncodeLoop(value, octal, lo, hi) ==
    IF lo > hi THEN [result |-> <<>>, octal |-> octal]
    ELSE IF lo = hi THEN EncodeByte(octal, value[lo])
    ELSE LET mid == (lo + hi) \div 2
             left == EncodeLoop(value, octal, lo, mid)
             right == EncodeLoop(value, left.octal, mid + 1, hi)
         IN [result |-> left.result \o right.result, octal |-> right.octal]

\* Whether old occurs in text at position i.
MatchesAt(text, old, i) ==
    /\ i + Len(old) - 1 <= Len(text)
    /\ \A k \in 1..Len(old) : text[i + k - 1] = old[k]

\* str.replace(old, new) over text[lo..hi]: skip is the number of characters of
\* a match begun to the left that are still to be passed over.
RECURSIVE ReplaceLoop(_, _, _, _, _, _)
ReplaceLoop(text, old, new, skip, lo, hi) ==
    IF lo > hi THEN [result |-> <<>>, skip |-> skip]
    ELSE IF lo = hi
    THEN IF skip > 0 THEN [result |-> <<>>, skip |-> skip - 1]
         ELSE IF MatchesAt(text, old, lo)
         THEN [result |-> new, skip |-> Len(old) - 1]
         ELSE [result |-> <<text[lo]>>, skip |-> 0]
    ELSE LET mid == (lo + hi) \div 2
             left == ReplaceLoop(text, old, new, skip, lo, mid)
             right == ReplaceLoop(text, old, new, left.skip, mid + 1, hi)
         IN [result |-> left.result \o right.result, skip |-> right.skip]

\* text.replace(old, new), old not empty
StrReplace(text, old, new) == ReplaceLoop(text, old, new, 0, 1, Len(text)).result

\* _encodePythonStringToC(value)
EncodeOneLiteral(value) ==
    LET result == EncodeLoop(value, FALSE, 1, Len(value)).result
        replaced == StrReplace(result, <<QUOTE, SPACE, QUOTE, BACKSLASH>>, <<BACKSLASH>>)
    IN <<QUOTE>> \o replaced \o <<QUOTE>>

\* The chunk size of encodePythonStringToC.
ChunkSize == 16000

\* value[lo..hi] clipped to the sequence, as a Python slice is.
Slice(value, lo, hi) ==
    LET top == IF hi < Len(value) THEN hi ELSE Len(value)
    IN IF lo > top THEN <<>> ELSE [i \in 1..(top - lo + 1) |-> value[lo + i - 1]]

\* The while loop of encodePythonStringToC: value[from..] is still to encode.
RECURSIVE EncodeChunks(_, _, _)
EncodeChunks(value, from, result) ==
    IF Len(value) - from + 1 > 0
    THEN EncodeChunks(value, from + ChunkSize,
             result \o <<SPACE>> \o
             EncodeOneLiteral(Slice(value, from, from + ChunkSize - 1)))
    ELSE result

\* encodePythonStringToC(value)
encodePythonStringToC(value) ==
    EncodeChunks(value, ChunkSize + 1, EncodeOneLiteral(Slice(value, 1, ChunkSize)))

(***************************************************************************)
(* The C compiler's reading of a sequence of string literals: literals are  *)
(* separated by white space and concatenate; inside a literal a backslash   *)
(* starts an octal escape of one to three octal digits.                     *)
(***************************************************************************)
OctalDigitChars == 48..55

\* The reader's state: mode is "out" (between literals), "lit" (inside one),
\* "esc" (just after a backslash), "oct" (inside an octal escape of n digits
\* with value acc) or "err".
ReaderStart == [mode |-> "out", n |-> 0, acc |-> 0]
ReaderLit == [mode |-> "lit", n |-> 0, acc |-> 0]
ReaderErr == [mode |-> "err", n |-> 0, acc |-> 0]

\* Reading character ch inside a literal, no escape pending.
ReadInLiteral(ch) ==
    IF ch = QUOTE THEN [bytes |-> <<>>, st |-> ReaderStart]
    ELSE IF ch = BACKSLASH THEN [bytes |-> <<>>, st |-> [mode |-> "esc", n |-> 0, acc |-> 0]]
    ELSE [bytes |-> <<ch>>, st |-> ReaderLit]

ReadChar(st, ch) ==
    CASE st.mode = "out" ->
           IF ch = QUOTE THEN [bytes |-> <<>>, st |-> ReaderLit]
           ELSE IF ch = SPACE THEN [bytes |-> <<>>, st |-> ReaderStart]
           ELSE [bytes |-> <<>>, st |-> ReaderErr]
      [] st.mode = "lit" -> ReadInLiteral(ch)
      [] st.mode = "esc" ->
           IF ch \in OctalDigitChars
           THEN [bytes |-> <<>>, st |-> [mode |-> "oct", n |-> 1, acc |-> ch - 48]]
           ELSE [bytes |-> <<>>, st |-> ReaderErr]
      [] st.mode = "oct" ->
           IF ch \in OctalDigitChars /\ st.n < 3
           THEN [bytes |-> <<>>,
                 st |-> [mode |-> "oct", n |-> st.n + 1, acc |-> st.acc * 8 + (ch - 48)]]
           ELSE LET rest == ReadInLiteral(ch)
                IN [bytes |-> <<st.acc % 256>> \o rest.bytes, st |-> rest.st]
      [] OTHER -> [bytes |-> <<>>, st |-> ReaderErr]

RECURSIVE ReadLoop(_, _, _, _)
ReadLoop(text, st, lo, hi) ==
    IF lo > hi THEN [bytes |-> <<>>, st |-> st]
    ELSE IF lo = hi THEN ReadChar(st, text[lo])
    ELSE LET mid == (lo + hi) \div 2
             left == ReadLoop(text, st, lo, mid)
             right == ReadLoop(text, left.st, mid + 1, hi)
         IN [bytes |-> left.bytes \o right.bytes, st |-> right.st]

\* The bytes the C text denotes; ok is FALSE when the text is not a sequence
\* of well-formed literals.
DecodeC(text) ==
    LET r == ReadLoop(text, ReaderStart, 1, Len(text))
    IN [ok |-> r.st.mode = "out" /\ Len(text) > 0, bytes |-> r.bytes]

(***************************************************************************)
(* Inputs of the string encoder.                                           *)
(***************************************************************************)
\* Bytes of every class the encoder distinguishes: NUL, a control byte, the
\* characters always escaped, decimal digits (octal and not), a letter, DEL,
\* and the top of the byte range.
StrAlphabet == {0, 1, 34, 92, 49, 56, 97, 127, 255}

AllBytes == 0..255

\* Short payloads: every sequence over StrAlphabet up to MaxStrLen, and every
\* byte value alone, after an escaped byte and after a plain one.
ShortPayloads ==
    SeqsUpTo(StrAlphabet, MaxStrLen)
      \cup {<<b>> : b \in AllBytes}
      \cup {<<1, b>> : b \in AllBytes}
      \cup {<<97, b>> : b \in AllBytes}

\* Bytes placed on the two sides of a chunk boundary.
BoundaryBytes == {1, 49, 97, 34}

\* n copies of byte b
Fill(b, n) == [i \in 1..n |-> b]

\* Long payloads: k full chunks (less one byte) of a filler, then two bytes
\* that straddle the chunk boundary, then one more byte.
LongPayloads ==
    {Fill(f, k * ChunkSize - 1) \o <<b1, b2, b3>> :
        f \in {97}, k \in 1..MaxChunks, b1 \in BoundaryBytes, b2 \in BoundaryBytes, b3 \in {49}}

(***************************************************************************)
(* encodePythonIdentifierToC                                               *)
(***************************************************************************)
DOT == 46
DOLLAR == 36

\* "%d" % n, n >= 0
RECURSIVE DecimalDigits(_)
DecimalDigits(n) ==
    IF n < 10 THEN <<48 + n>>
    ELSE Append(DecimalDigits(n \div 10), 48 + (n % 10))

\* The characters the pattern [^a-zA-Z0-9_] does not match.
IdentifierChars == (97..122) \cup (65..90) \cup (48..57) \cup {95}

\* The replacement function r(match) of encodePythonIdentifierToC.
ReplaceMatch(c) ==
    IF c = DOT THEN <<DOLLAR>>
    ELSE <<DOLLAR, DOLLAR>> \o DecimalDigits(c) \o <<DOLLAR>>

\* re.sub("[^a-zA-Z0-9_]", r, c) for a single character c
SubChar(c) == IF c \in IdentifierChars THEN <<c>> ELSE ReplaceMatch(c)

\* "".join(re.sub(...) for c in value)
RECURSIVE encodePythonIdentifierToC(_)
encodePythonIdentifierToC(value) ==
    IF value = <<>> THEN <<>>
    ELSE SubChar(Head(value)) \o encodePythonIdentifierToC(Tail(value))

\* Characters of the explored identifiers: the dot, a legal character and an
\* illegal one (the tab, code 9).
IdAlphabet == {DOT, 57, 9}

Identifiers == SeqsUpTo(IdAlphabet, MaxIdLen)

(***************************************************************************)
(* Python values held by constants.  A value is a record of its exact type *)
(* and its content: numbers are integers (a float n stands for n.0, a      *)
(* complex is <<real, imag>>), texts and byte strings are sequences of     *)
(* character codes, tuples and lists are sequences of values, a set is the *)
(* sequence of its distinct elements in iteration order, a dict is the     *)
(* sequence of its <<key, value>> items in iteration order.                *)
(***************************************************************************)
PyNone == [type |-> "NoneType", val |-> 0]
PyTrue == [type |-> "bool", val |-> TRUE]
PyFalse == [type |-> "bool", val |-> FALSE]
PyEllipsis == [type |-> "ellipsis", val |-> 0]
PyBool(b) == [type |-> "bool", val |-> b]
PyInt(n) == [type |-> "int", val |-> n]
PyLong(n) == [type |-> "long", val |-> n]
PyFloat(n) == [type |-> "float", val |-> n]
PyComplex(re, im) == [type |-> "complex", val |-> <<re, im>>]
PyStr(s) == [type |-> "str", val |-> s]
PyUnicode(s) == [type |-> "unicode", val |-> s]
PyBytes(s) == [type |-> "bytes", val |-> s]
PyTuple(s) == [type |-> "tuple", val |-> s]
PyList(s) == [type |-> "list", val |-> s]
PySet(s) == [type |-> "set", val |-> s]
PyFrozenset(s) == [type |-> "frozenset", val |-> s]
PyDict(items) == [type |-> "dict", val |-> items]
PySlice(a, b, c) == [type |-> "slice", val |-> <<a, b, c>>]
PyType(name) == [type |-> "type", val |-> name]

\* The type object a type name of the source denotes: nuitka.__past__ makes
\* long and unicode aliases of int and str on Python 3, and bytes is str on
\* Python 2.
TypeNamed(name, p3) ==
    IF p3 /\ name = "long" THEN "int"
    ELSE IF p3 /\ name = "unicode" THEN "str"
    ELSE IF ~p3 /\ name = "bytes" THEN "str"
    ELSE name

\* A byte string literal b"...": bytes on Python 3, str on Python 2.
PyBytesLiteral(s, p3) == [type |-> TypeNamed("bytes", p3), val |-> s]

(***************************************************************************)
(* nodes/ConstantRefNodes.py                                               *)
(***************************************************************************)

\* An omitted child (None in a child slot), and the absence of a node.
NoNode == [kind |-> "None"]

ConstantKinds == {
    "EXPRESSION_CONSTANT_NONE_REF", "EXPRESSION_CONSTANT_TRUE_REF",
    "EXPRESSION_CONSTANT_FALSE_REF", "EXPRESSION_CONSTANT_ELLIPSIS_REF",
    "EXPRESSION_CONSTANT_DICT_REF", "EXPRESSION_CONSTANT_DICT_EMPTY_REF",
    "EXPRESSION_CONSTANT_TUPLE_REF", "EXPRESSION_CONSTANT_LIST_REF",
    "EXPRESSION_CONSTANT_SET_REF", "EXPRESSION_CONSTANT_INT_REF",
    "EXPRESSION_CONSTANT_LONG_REF", "EXPRESSION_CONSTANT_STR_REF",
    "EXPRESSION_CONSTANT_UNICODE_REF", "EXPRESSION_CONSTANT_BYTES_REF",
    "EXPRESSION_CONSTANT_FLOAT_REF", "EXPRESSION_CONSTANT_COMPLEX_REF",
    "EXPRESSION_CONSTANT_SLICE_REF", "EXPRESSION_CONSTANT_TYPE_REF" }

\* the_empty_dict
the_empty_dict == PyDict(<<>>)

\* ExpressionConstantRefBase.__init__ as reached from the subclass of the
\* given kind: the node's attributes.
ExpressionConstantRef(kind, constant, source_ref, user_provided) ==
    [kind |-> kind, constant |-> constant, user_provided |-> user_provided,
     source_ref |-> source_ref]

\* The thresholds of ExpressionConstantRefBase.__init__.
MaxSizeText == 1000
MaxSizeOther == 256

\* (variant of the size check that warns of user provided constants too)
TooLargeWarningsOfAll(constant, source_ref, user_provided, debug) ==
    IF debug /\ constant.type \in {"str", "unicode", "bytes", "tuple", "list", "set",
                                    "frozenset", "dict"}
             /\ Len(constant.val) > (IF constant.type \in {"str", "unicode"}
                                     THEN MaxSizeText ELSE MaxSizeOther)
    THEN <<[ev |-> "warning", node |-> NoNode, exc |-> "Too large constant",
            args |-> <<>>]>>
    ELSE <<>>

\* The size check of ExpressionConstantRefBase.__init__: the warnings it
\* logs.  len(constant) raises TypeError for a constant without a length,
\* which is passed over.
TooLargeWarnings(constant, source_ref, user_provided, debug) ==
    IF ~user_provided /\ debug
    THEN IF constant.type \in {"str", "unicode", "bytes", "tuple", "list", "set",
                               "frozenset", "dict"}
         THEN LET size == Len(constant.val)
                  max_size == IF constant.type \in {"str", "unicode"}
                              THEN MaxSizeText ELSE MaxSizeOther
              IN IF size > max_size
                 THEN <<[ev |-> "warning", node |-> NoNode,
                         exc |-> "Too large constant", args |-> <<>>]>>
                 ELSE <<>>
         ELSE <<>>
    ELSE <<>>

\* The outcome of a call that returns a node or faults.
Made(n) == [fault |-> "None", node |-> n]
Faulted(e) == [fault |-> e, node |-> NoNode]

\* The numeric value Python's == compares: True is 1, False is 0.
IsNumeric(v) == v.type \in {"bool", "int", "long", "float"}
NumericValue(v) == IF v.type = "bool" THEN (IF v.val THEN 1 ELSE 0) ELSE v.val

\* The second half of makeConstantRefNode: the dispatch on the exact type.
KindOfType(constant, p3) ==
    LET constant_type == constant.type
    IN  IF constant_type = TypeNamed("int", p3) THEN "EXPRESSION_CONSTANT_INT_REF"
        ELSE IF constant_type = TypeNamed("str", p3) THEN "EXPRESSION_CONSTANT_STR_REF"
        ELSE IF constant_type = TypeNamed("float", p3) THEN "EXPRESSION_CONSTANT_FLOAT_REF"
        ELSE IF constant_type = TypeNamed("long", p3) THEN "EXPRESSION_CONSTANT_LONG_REF"
        ELSE IF constant_type = TypeNamed("unicode", p3) THEN "EXPRESSION_CONSTANT_UNICODE_REF"
        ELSE IF constant_type = TypeNamed("bytes", p3) THEN "EXPRESSION_CONSTANT_BYTES_REF"
        ELSE IF constant_type = TypeNamed("dict", p3)
             THEN IF constant.val # <<>>
                  THEN "EXPRESSION_CONSTANT_DICT_REF"
                  ELSE "EXPRESSION_CONSTANT_DICT_EMPTY_REF"
        ELSE IF constant_type = TypeNamed("tuple", p3) THEN "EXPRESSION_CONSTANT_TUPLE_REF"
        ELSE IF constant_type = TypeNamed("list", p3) THEN "EXPRESSION_CONSTANT_LIST_REF"
        ELSE IF constant_type = TypeNamed("set", p3) THEN "EXPRESSION_CONSTANT_SET_REF"
        ELSE IF constant_type = TypeNamed("complex", p3) THEN "EXPRESSION_CONSTANT_COMPLEX_REF"
        ELSE IF constant_type = TypeNamed("slice", p3) THEN "EXPRESSION_CONSTANT_SLICE_REF"
        ELSE IF constant_type = TypeNamed("type", p3) THEN "EXPRESSION_CONSTANT_TYPE_REF"
        ELSE "AssertionError"

\* (variant of the dispatch that tests "constant == True" and "constant ==
\* False" where the source tests identity)
KindOfConstantByEquality(constant, p3) ==
    IF constant = PyNone THEN "EXPRESSION_CONSTANT_NONE_REF"
    ELSE IF IsNumeric(constant) /\ NumericValue(constant) = 1
    THEN "EXPRESSION_CONSTANT_TRUE_REF"
    ELSE IF IsNumeric(constant) /\ NumericValue(constant) = 0
    THEN "EXPRESSION_CONSTANT_FALSE_REF"
    ELSE IF constant = PyEllipsis THEN "EXPRESSION_CONSTANT_ELLIPSIS_REF"
    ELSE KindOfType(constant, p3)

\* The dispatch of makeConstantRefNode: the kind of the node class chosen for
\* the constant, or "AssertionError" when the final assert is reached.  None,
\* True, False and Ellipsis are singletons, so identity is equality of the
\* value records.
KindOfConstant(constant, p3) ==
    IF constant = PyNone THEN "EXPRESSION_CONSTANT_NONE_REF"
    ELSE IF constant = PyTrue THEN "EXPRESSION_CONSTANT_TRUE_REF"
    ELSE IF constant = PyFalse THEN "EXPRESSION_CONSTANT_FALSE_REF"
    ELSE IF constant = PyEllipsis THEN "EXPRESSION_CONSTANT_ELLIPSIS_REF"
    ELSE KindOfType(constant, p3)

\* makeConstantRefNode(constant, source_ref, user_provided)
makeConstantRefNode(constant, source_ref, user_provided, p3) ==
    LET kind == KindOfConstant(constant, p3)
    IN  IF kind = "AssertionError" THEN Faulted("AssertionError")
        ELSE IF kind = "EXPRESSION_CONSTANT_DICT_EMPTY_REF"
        THEN Made(ExpressionConstantRef(kind, the_empty_dict, source_ref, user_provided))
        ELSE Made(ExpressionConstantRef(kind, constant, source_ref, user_provided))

\* isCompileTimeConstant(): true of the constant reference nodes.
isCompileTimeConstant(n) == n.kind \in ConstantKinds

\* isMapping()
isMapping(self) == self.constant.type = "dict"

\* nuitka.Constants.isIterableConstant
isIterableConstant(constant) ==
    constant.type \in {"str", "unicode", "bytes", "tuple", "list", "set",
                       "frozenset", "dict"}

\* A one character text of the same type as the text it comes from.
CharOf(constant, i) == [type |-> constant.type, val |-> <<constant.val[i]>>]

\* The values iterating over the constant yields, in order: the characters
\* of a text (the integers of a bytes object), the elements of a sequence or
\* set, the keys of a dict.
IterationElements(constant) ==
    IF constant.type \in {"str", "unicode"}
    THEN [i \in 1..Len(constant.val) |-> CharOf(constant, i)]
    ELSE IF constant.type = "bytes"
    THEN [i \in 1..Len(constant.val) |-> PyInt(constant.val[i])]
    ELSE IF constant.type = "dict"
    THEN [i \in 1..Len(constant.val) |-> constant.val[i][1]]
    ELSE constant.val

\* tuple(constant) for an iterable constant
TupleOf(constant) == PyTuple(IterationElements(constant))

\* Records of what an operation returned and what it told the collection.
\* A change is the triple (node, change_tags, change_desc); tags and
\* descriptions are strings, "None" for None.
Change(n, tags, desc) == [node |-> n, tags |-> tags, desc |-> desc]

\* Notifications to the constraint collection.
OnExceptionRaiseExit(exc) == [ev |-> "onExceptionRaiseExit", node |-> NoNode, exc |-> exc, args |-> <<>>]
RemoveKnowledge(n) == [ev |-> "removeKnowledge", node |-> n, exc |-> "None", args |-> <<>>]
OnControlFlowEscape(n) == [ev |-> "onControlFlowEscape", node |-> n, exc |-> "None", args |-> <<>>]

\* (variant of computeExpression of a constant that reports the constant as
\* a new one each time)
ConstantComputeExpressionAgain(self) ==
    [ret |-> Change(self, "new_constant", "Constant value."), events |-> <<>>]

\* ExpressionConstantRefBase.computeExpression
ConstantComputeExpression(self) ==
    [ret |-> Change(self, "None", "None"), events |-> <<>>]

\* (variant of computeExpressionIter1 that builds the tuple constant with
\* the default user_provided)
ConstantComputeExpressionIter1Default(self, iter_node, p3) ==
    IF self.constant.type \in {"list", "set", "frozenset", "dict"}
    THEN LET result == makeConstantRefNode(TupleOf(self.constant),
                            self.source_ref, FALSE, p3).node
         IN [ret |-> Change([iter_node EXCEPT !.value = result], "new_constant",
                            "Iteration over constant changed to tuple."),
             events |-> <<>>]
    ELSE [ret |-> Change(iter_node, "None", "None"),
          events |-> IF ~isIterableConstant(self.constant)
                     THEN <<OnExceptionRaiseExit("TypeError")>> ELSE <<>>]

\* ExpressionConstantRefBase.computeExpressionIter1(iter_node, collection).
\* self.replaceWith(result) puts result in the slot of iter_node that held
\* self, so the iter_node returned is the one with the new child.
ConstantComputeExpressionIter1(self, iter_node, p3) ==
    IF self.constant.type \in {"list", "set", "frozenset", "dict"}
    THEN LET result == makeConstantRefNode(TupleOf(self.constant),
                            self.source_ref, self.user_provided, p3).node
         IN [ret |-> Change([iter_node EXCEPT !.value = result], "new_constant",
                            "Iteration over constant changed to tuple."),
             events |-> <<>>]
    ELSE [ret |-> Change(iter_node, "None", "None"),
          events |-> IF ~isIterableConstant(self.constant)
                     THEN <<OnExceptionRaiseExit("TypeError")>> ELSE <<>>]

\* list.append called with the given arguments: it takes exactly one.
ListAppend(list, arguments) ==
    IF Len(arguments) = 1
    THEN [fault |-> "None", list |-> Append(list, arguments[1])]
    ELSE [fault |-> "TypeError", list |-> list]

\* The loop of getMappingPairs over the remaining items.
RECURSIVE MappingPairsLoop(_, _, _, _)
MappingPairsLoop(items, source_ref, pairs, p3) ==
    IF items = <<>> THEN [fault |-> "None", value |-> pairs]
    ELSE LET key == makeConstantRefNode(Head(items)[1], source_ref, FALSE, p3)
             value == makeConstantRefNode(Head(items)[2], source_ref, FALSE, p3)
             call == ListAppend(pairs, <<key.node, value.node>>)
         IN IF key.fault # "None" THEN [fault |-> key.fault, value |-> <<>>]
            ELSE IF value.fault # "None" THEN [fault |-> value.fault, value |-> <<>>]
            ELSE IF call.fault # "None" THEN [fault |-> call.fault, value |-> <<>>]
            ELSE MappingPairsLoop(Tail(items), source_ref, call.list, p3)

\* ExpressionConstantRefBase.getMappingPairs
getMappingPairs(self, p3) ==
    IF ~isMapping(self) THEN [fault |-> "AssertionError", value |-> <<>>]
    ELSE MappingPairsLoop(self.constant.val, self.source_ref, <<>>, p3)

\* The loop of getMappingStringKeyPairs over the remaining items.
RECURSIVE MappingStringKeyPairsLoop(_, _, _, _)
MappingStringKeyPairsLoop(items, source_ref, pairs, p3) ==
    IF items = <<>> THEN [fault |-> "None", value |-> pairs]
    ELSE LET key == Head(items)[1]
             value == makeConstantRefNode(Head(items)[2], source_ref, FALSE, p3)
             call == ListAppend(pairs, << <<key, value.node>> >>)
         IN IF value.fault # "None" THEN [fault |-> value.fault, value |-> <<>>]
            ELSE IF call.fault # "None" THEN [fault |-> call.fault, value |-> <<>>]
            ELSE MappingStringKeyPairsLoop(Tail(items), source_ref, call.list, p3)

\* ExpressionConstantRefBase.getMappingStringKeyPairs
getMappingStringKeyPairs(self, p3) ==
    IF ~isMapping(self) THEN [fault |-> "AssertionError", value |-> <<>>]
    ELSE MappingStringKeyPairsLoop(self.constant.val, self.source_ref, <<>>, p3)

\* ExpressionConstantRefBase.extractSideEffects: constants have none.
ConstantExtractSideEffects(self) == <<>>

\* The outcome of an expression that yields a value or raises.
Value(v) == [fault |-> "None", value |-> v]
NoValue(e) == [fault |-> e, value |-> PyNone]

\* The types len() accepts.
SizedTypes == {"str", "unicode", "bytes", "tuple", "list", "set", "frozenset", "dict"}

\* The entries of a dict whose key equals the integer count.
KeysEqualTo(items, count) ==
    {i \in 1..Len(items) : IsNumeric(items[i][1]) /\ NumericValue(items[i][1]) = count}

\* self.constant[count] for 0 <= count < len(self.constant): the element of
\* a sequence, the character of a text (the integer of a bytes object of
\* Python 3), the value stored under the key count in a dict (KeyError when
\* there is none); a set has no subscription.
Subscript(constant, count) ==
    CASE constant.type \in {"str", "unicode"} -> Value(CharOf(constant, count + 1))
      [] constant.type = "bytes" -> Value(PyInt(constant.val[count + 1]))
      [] constant.type \in {"tuple", "list"} -> Value(constant.val[count + 1])
      [] constant.type = "dict" ->
           IF KeysEqualTo(constant.val, count) = {} THEN NoValue("KeyError")
           ELSE Value(constant.val[CHOOSE i \in KeysEqualTo(constant.val, count) : TRUE][2])
      [] OTHER -> NoValue("TypeError")

\* The count None of isKnownToBeIterable(None).
NoCount == -1

\* nuitka.Constants.getConstantIterationLength
getConstantIterationLength(constant) == Len(constant.val)

\* ExpressionConstantRefBase.isKnownToBeIterable(count)
isKnownToBeIterable(self, count) ==
    IF isIterableConstant(self.constant)
    THEN count = NoCount \/ getConstantIterationLength(self.constant) = count
    ELSE FALSE

\* ExpressionConstantRefBase.canPredictIterationValues
canPredictIterationValues(self) == isKnownToBeIterable(self, NoCount)

\* ExpressionConstantRefBase.getIterationLength: NoCount stands for None.
getIterationLength(self) ==
    IF isIterableConstant(self.constant) THEN getConstantIterationLength(self.constant)
    ELSE NoCount

\* ExpressionConstantRefBase.getIterationValues: a node for every value the
\* iteration over self.constant yields, TypeError when it cannot be
\* iterated.
getIterationValues(self, p3) ==
    IF ~isIterableConstant(self.constant) THEN [fault |-> "TypeError", value |-> <<>>]
    ELSE LET values == IterationElements(self.constant)
             made == [i \in 1..Len(values) |->
                         makeConstantRefNode(values[i], self.source_ref,
                                             self.user_provided, p3)]
         IN IF \E i \in 1..Len(values) : made[i].fault # "None"
            THEN [fault |-> "AssertionError", value |-> <<>>]
            ELSE [fault |-> "None", value |-> [i \in 1..Len(values) |-> made[i].node]]

\* ExpressionConstantRefBase.getIterationValue(count)
getIterationValue(self, count, p3) ==
    IF self.constant.type \notin SizedTypes THEN Faulted("TypeError")
    ELSE IF ~(count < Len(self.constant.val)) THEN Faulted("AssertionError")
    ELSE LET element == Subscript(self.constant, count)
         IN IF element.fault # "None" THEN Faulted(element.fault)
            ELSE makeConstantRefNode(element.value, self.source_ref, FALSE, p3)

(***************************************************************************)
(* Collaborators of the built-in type nodes that live in other modules     *)
(* (NodeBases, NodeMakingHelpers, BuiltinOptimization, the constraint      *)
(* collection): other expression nodes, truth values, side effects, the    *)
(* native constructors and the generic fold.                               *)
(***************************************************************************)

\* An expression that is not a compile time constant: what the optimizer
\* knows of its truth value ("True", "False" or "None") and the side effects
\* it would leave behind when dropped.
OtherExpression(kind, truth, side_effects, source_ref) ==
    [kind |-> kind, truth |-> truth, side_effects |-> side_effects,
     str_value |-> NoNode, source_ref |-> source_ref]

OtherKinds == {"EXPRESSION_VARIABLE_REF", "EXPRESSION_MAKE_LIST", "EXPRESSION_CALL"}

\* bool(value)
PyTruth(v) ==
    CASE v.type = "NoneType" -> FALSE
      [] v.type = "bool" -> v.val
      [] v.type \in {"int", "long", "float"} -> v.val # 0
      [] v.type = "complex" -> v.val # <<0, 0>>
      [] v.type \in {"str", "unicode", "bytes", "tuple", "list", "set",
                     "frozenset", "dict"} -> v.val # <<>>
      [] OTHER -> TRUE

\* getTruthValue(): "True", "False", or "None" when it is not known.
getTruthValue(n) ==
    IF isCompileTimeConstant(n)
    THEN (IF PyTruth(n.constant) THEN "True" ELSE "False")
    ELSE n.truth

\* extractSideEffects()
extractSideEffects(n) ==
    IF isCompileTimeConstant(n) THEN ConstantExtractSideEffects(n)
    ELSE n.side_effects

\* wrapExpressionWithSideEffects(new_node, old_node, side_effects)
wrapExpressionWithSideEffects(new_node, side_effects, source_ref) ==
    IF side_effects # <<>>
    THEN [kind |-> "EXPRESSION_SIDE_EFFECTS", side_effects |-> side_effects,
          expression |-> new_node, source_ref |-> source_ref]
    ELSE new_node

\* wrapExpressionWithNodeSideEffects(new_node, old_node)
wrapExpressionWithNodeSideEffects(new_node, old_node) ==
    wrapExpressionWithSideEffects(new_node, extractSideEffects(old_node),
                                  old_node.source_ref)

\* makeConstantReplacementNode(constant, node)
makeConstantReplacementNode(constant, n, p3) ==
    makeConstantRefNode(constant, n.source_ref, FALSE, p3)

\* makeRaiseExceptionReplacementExpression
RaiseException(exception_type, source_ref) ==
    [kind |-> "EXPRESSION_RAISE_EXCEPTION", exception_type |-> exception_type,
     source_ref |-> source_ref]

\* Outcomes of evaluating a native constructor at compile time.
Returns(v) == [fault |-> "None", value |-> v]
Raises(e) == [fault |-> e, value |-> PyNone]

IsText(v) == v.type \in {"str", "unicode"}

\* The value of a digit character in a numeral, -1 if it is none.
DigitValue(ch) ==
    IF ch \in 48..57 THEN ch - 48
    ELSE IF ch \in 97..122 THEN ch - 97 + 10
    ELSE -1

IsNumeral(s, base) ==
    /\ Len(s) > 0
    /\ \A i \in 1..Len(s) : DigitValue(s[i]) >= 0 /\ DigitValue(s[i]) < base

RECURSIVE NumeralValue(_, _)
NumeralValue(s, base) ==
    IF s = <<>> THEN 0
    ELSE NumeralValue(SubSeq(s, 1, Len(s) - 1), base) * base + DigitValue(s[Len(s)])

\* The distinct elements of a sequence, first occurrences kept in order.
RECURSIVE Distinct(_)
Distinct(s) ==
    IF s = <<>> THEN <<>>
    ELSE LET front == Distinct(SubSeq(s, 1, Len(s) - 1))
             x == s[Len(s)]
         IN IF \E i \in 1..Len(front) : front[i] = x THEN front ELSE Append(front, x)

IsHashableValue(v) == v.type \notin {"list", "set", "dict"}

\* tuple(*args), list(*args), set(*args)
NativeSequence(name, args) ==
    IF args = <<>>
    THEN Returns([type |-> name, val |-> <<>>])
    ELSE IF ~isIterableConstant(args[1]) THEN Raises("TypeError")
    ELSE IF name = "set"
    THEN IF \A i \in 1..Len(IterationElements(args[1])) :
                IsHashableValue(IterationElements(args[1])[i])
         THEN Returns(PySet(Distinct(IterationElements(args[1]))))
         ELSE Raises("TypeError")
    ELSE Returns([type |-> name, val |-> IterationElements(args[1])])

\* float(*args)
NativeFloat(args) ==
    IF args = <<>> THEN Returns(PyFloat(0))
    ELSE IF IsNumeric(args[1]) THEN Returns(PyFloat(NumericValue(args[1])))
    ELSE IF IsText(args[1])
    THEN IF IsNumeral(args[1].val, 10)
         THEN Returns(PyFloat(NumeralValue(args[1].val, 10)))
         ELSE Raises("ValueError")
    ELSE Raises("TypeError")

\* bool(*args)
NativeBool(args) ==
    IF args = <<>> THEN Returns(PyFalse) ELSE Returns(PyBool(PyTruth(args[1])))

\* int(*args) and long(*args); name is the type of the result.
NativeIntLong(name, args) ==
    IF args = <<>> THEN Returns([type |-> name, val |-> 0])
    ELSE IF Len(args) = 1
    THEN IF IsNumeric(args[1])
         THEN Returns([type |-> name, val |-> NumericValue(args[1])])
         ELSE IF IsText(args[1]) \/ args[1].type = "bytes"
         THEN IF IsNumeral(args[1].val, 10)
              THEN Returns([type |-> name, val |-> NumeralValue(args[1].val, 10)])
              ELSE Raises("ValueError")
         ELSE Raises("TypeError")
    ELSE IF args[2].type \notin {"int", "long", "bool"} THEN Raises("TypeError")
    ELSE IF ~(IsText(args[1]) \/ args[1].type = "bytes") THEN Raises("TypeError")
    ELSE IF NumericValue(args[2]) \notin (2..36) THEN Raises("ValueError")
    ELSE IF IsNumeral(args[1].val, NumericValue(args[2]))
    THEN Returns([type |-> name, val |-> NumeralValue(args[1].val, NumericValue(args[2]))])
    ELSE Raises("ValueError")

\* The encodings the decoder knows: "ascii" and "utf-8".
TextAscii == <<97, 115, 99, 105, 105>>
TextUtf8 == <<117, 116, 102, 45, 56>>
TextStrict == <<115, 116, 114, 105, 99, 116>>

IsAsciiOnly(s) == \A i \in 1..Len(s) : s[i] < 128

\* repr of a bytes object of printable characters: b'...'
BytesRepr(s) == <<98, 39>> \o s \o <<39>>

(***************************************************************************)
(* repr(value) and str(value) of the Python runtime, for the values above  *)
(* (numbers are not negative, texts hold printable characters).            *)
(***************************************************************************)
RECURSIVE JoinTexts(_, _)
JoinTexts(texts, sep) ==
    IF texts = <<>> THEN <<>>
    ELSE IF Len(texts) = 1 THEN texts[1]
    ELSE LET half == Len(texts) \div 2
         IN JoinTexts(SubSeq(texts, 1, half), sep) \o sep
            \o JoinTexts(SubSeq(texts, half + 1, Len(texts)), sep)

RECURSIVE PyRepr(_, _)
PyRepr(v, p3) ==
    LET items == IF v.type \in {"tuple", "list", "set", "frozenset"}
                 THEN [i \in 1..Len(v.val) |-> PyRepr(v.val[i], p3)]
                 ELSE IF v.type = "dict"
                 THEN [i \in 1..Len(v.val) |->
                          PyRepr(v.val[i][1], p3) \o <<58, 32>> \o PyRepr(v.val[i][2], p3)]
                 ELSE <<>>
        joined == JoinTexts(items, <<44, 32>>)
    IN CASE v.type = "NoneType" -> <<78, 111, 110, 101>>
         [] v.type = "bool" -> (IF v.val THEN <<84, 114, 117, 101>> ELSE <<70, 97, 108, 115, 101>>)
         [] v.type = "ellipsis" -> <<69, 108, 108, 105, 112, 115, 105, 115>>
         [] v.type = "int" -> DecimalDigits(v.val)
         [] v.type = "long" -> DecimalDigits(v.val) \o <<76>>
         [] v.type = "float" -> DecimalDigits(v.val) \o <<46, 48>>
         [] v.type = "complex" ->
              IF v.val[1] = 0 THEN DecimalDigits(v.val[2]) \o <<106>>
              ELSE <<40>> \o DecimalDigits(v.val[1]) \o <<43>> \o DecimalDigits(v.val[2]) \o <<106, 41>>
         [] v.type = "str" -> <<39>> \o v.val \o <<39>>
         [] v.type = "unicode" -> <<117, 39>> \o v.val \o <<39>>
         [] v.type = "bytes" -> BytesRepr(v.val)
         [] v.type = "tuple" ->
              IF Len(v.val) = 1 THEN <<40>> \o joined \o <<44, 41>> ELSE <<40>> \o joined \o <<41>>
         [] v.type = "list" -> <<91>> \o joined \o <<93>>
         [] v.type = "set" ->
              IF p3 THEN (IF v.val = <<>> THEN <<115, 101, 116, 40, 41>> ELSE <<123>> \o joined \o <<125>>)
              ELSE <<115, 101, 116, 40, 91>> \o joined \o <<93, 41>>
         [] v.type = "frozenset" ->
              IF p3 THEN (IF v.val = <<>> THEN <<102, 114, 111, 122, 101, 110, 115, 101, 116, 40, 41>>
                          ELSE <<102, 114, 111, 122, 101, 110, 115, 101, 116, 40, 123>> \o joined \o <<125, 41>>)
              ELSE <<102, 114, 111, 122, 101, 110, 115, 101, 116, 40, 91>> \o joined \o <<93, 41>>
         [] v.type = "dict" -> <<123>> \o joined \o <<125>>
         [] v.type = "slice" ->
              <<115, 108, 105, 99, 101, 40>> \o JoinTexts([i \in 1..3 |-> PyRepr(v.val[i], p3)], <<44, 32>>) \o <<41>>
         [] v.type = "type" ->
              (IF p3 THEN <<60, 99, 108, 97, 115, 115, 32, 39>> ELSE <<60, 116, 121, 112, 101, 32, 39>>) \o v.val \o <<39, 62>>
         [] OTHER -> <<>>

\* str(value): the text itself for a str, the ASCII encoding of a unicode
\* (Python 2), which fails for a character outside ASCII, else the repr.
PyStrOf(v, p3) ==
    IF v.type = "str" THEN Returns(v)
    ELSE IF v.type = "unicode"
    THEN IF IsAsciiOnly(v.val) THEN Returns(PyStr(v.val))
         ELSE Raises("UnicodeEncodeError")
    ELSE Returns(PyStr(PyRepr(v, p3)))

\* unicode(*args) on Python 2 and str(*args) on Python 3: the text type
\* constructor with value, encoding and errors.
NativeText(args, p3) ==
    LET text == IF p3 THEN "str" ELSE "unicode"
        bytes_type == TypeNamed("bytes", p3)
    IN  IF args = <<>> THEN Returns([type |-> text, val |-> <<>>])
        ELSE IF Len(args) = 1
        THEN IF p3 THEN PyStrOf(args[1], p3)
             ELSE IF args[1].type = "unicode" THEN Returns(args[1])
             ELSE LET t == PyStrOf(args[1], p3)
                  IN IF IsAsciiOnly(t.value.val)
                     THEN Returns(PyUnicode(t.value.val))
                     ELSE Raises("UnicodeDecodeError")
        ELSE IF \E i \in 2..Len(args) : args[i].type # "str" THEN Raises("TypeError")
        ELSE IF args[1].type # bytes_type THEN Raises("TypeError")
        ELSE IF args[2].val \notin {TextAscii, TextUtf8} THEN Raises("LookupError")
        ELSE IF IsAsciiOnly(args[1].val)
        THEN Returns([type |-> text, val |-> args[1].val])
        ELSE Raises("UnicodeDecodeError")

\* str(*args) on Python 2
NativeStr2(args) ==
    IF args = <<>> THEN Returns(PyStr(<<>>)) ELSE PyStrOf(args[1], FALSE)

\* complex(*args)
NativeComplex(args) ==
    IF args = <<>> THEN Returns(PyComplex(0, 0))
    ELSE IF Len(args) = 1
    THEN IF IsNumeric(args[1]) THEN Returns(PyComplex(NumericValue(args[1]), 0))
         ELSE IF IsText(args[1]) THEN Raises("ValueError")
         ELSE Raises("TypeError")
    ELSE IF IsNumeric(args[1]) /\ IsNumeric(args[2])
    THEN Returns(PyComplex(NumericValue(args[1]), NumericValue(args[2])))
    ELSE Raises("TypeError")

\* builtin_spec.simulateCall: the native constructor named by the spec,
\* applied to the values of the arguments.
simulateCall(name, args, p3) ==
    CASE name \in {"tuple", "list", "set"} -> NativeSequence(name, args)
      [] name = "float" -> NativeFloat(args)
      [] name = "bool" -> NativeBool(args)
      [] name = "int" -> NativeIntLong("int", args)
      [] name = "long" -> NativeIntLong(TypeNamed("long", p3), args)
      [] name = "unicode" -> NativeText(args, p3)
      [] name = "str" -> IF p3 THEN NativeText(args, p3) ELSE NativeStr2(args)
      [] name = "complex" -> NativeComplex(args)
      [] OTHER -> Raises("TypeError")

\* The children of a built-in type node, in the order of named_children.
ChildrenOf(n) ==
    CASE n.kind \in {"EXPRESSION_BUILTIN_INT", "EXPRESSION_BUILTIN_LONG"} ->
           <<n.value, n.base>>
      [] "encoding" \in DOMAIN n ->
           <<n.value, n.encoding, n.errors>>
      [] n.kind = "EXPRESSION_BUILTIN_COMPLEX" -> <<n.real, n.imag>>
      [] OTHER -> <<n.value>>

IsPresent(n) == n # NoNode

\* The side effects of the nodes of a sequence, in order.
RECURSIVE SideEffectsOf(_)
SideEffectsOf(nodes) ==
    IF nodes = <<>> THEN <<>>
    ELSE (IF IsPresent(Head(nodes)) THEN extractSideEffects(Head(nodes)) ELSE <<>>)
         \o SideEffectsOf(Tail(nodes))

\* The name of the built-in the builtin_spec of a node class stands for.
BuiltinName(kind) ==
    CASE kind = "EXPRESSION_BUILTIN_TUPLE" -> "tuple"
      [] kind = "EXPRESSION_BUILTIN_LIST" -> "list"
      [] kind = "EXPRESSION_BUILTIN_SET" -> "set"
      [] kind = "EXPRESSION_BUILTIN_FLOAT" -> "float"
      [] kind = "EXPRESSION_BUILTIN_BOOL" -> "bool"
      [] kind = "EXPRESSION_BUILTIN_INT" -> "int"
      [] kind = "EXPRESSION_BUILTIN_LONG" -> "long"
      [] kind = "EXPRESSION_BUILTIN_STR" -> "str"
      [] kind = "EXPRESSION_BUILTIN_UNICODE" -> "unicode"
      [] kind = "EXPRESSION_BUILTIN_BYTEARRAY" -> "bytearray"
      [] kind = "EXPRESSION_BUILTIN_COMPLEX" -> "complex"
      [] OTHER -> "None"

\* The record that the generic fold was entered with given_values.
FoldEntered(self, given_values) ==
    [ev |-> "computeBuiltinSpec", node |-> self, exc |-> "None", args |-> given_values]

\* constraint_collection.getCompileTimeComputationResult(node, computation,
\* description), given the outcome of running the computation: a constant
\* on success; on a fault a raise of that exception, carrying the side
\* effects of the node's children, and the notification of the exception.
getCompileTimeComputationResult(n, outcome, description, p3) ==
    IF outcome.fault = "None"
    THEN [ret |-> Change(makeConstantReplacementNode(outcome.value, n, p3).node,
                         "new_constant", description),
          events |-> <<>>]
    ELSE [ret |-> Change(wrapExpressionWithSideEffects(
                             RaiseException(outcome.fault, n.source_ref),
                             SideEffectsOf(ChildrenOf(n)), n.source_ref),
                         "new_raise", description),
          events |-> <<OnExceptionRaiseExit(outcome.fault)>>]

\* ExpressionSpecBasedComputationMixin.computeBuiltinSpec(collection,
\* given_values): unchanged unless every given value is a compile time
\* constant, else the result of simulating the call.
computeBuiltinSpec(self, given_values, p3) ==
    IF \E i \in 1..Len(given_values) : ~isCompileTimeConstant(given_values[i])
    THEN [ret |-> Change(self, "None", "None"),
          events |-> <<FoldEntered(self, given_values)>>]
    ELSE LET values == [i \in 1..Len(given_values) |-> given_values[i].constant]
             r == getCompileTimeComputationResult(self,
                      simulateCall(BuiltinName(self.kind), values, p3),
                      "Built-in call pre-computed.", p3)
         IN [ret |-> r.ret, events |-> <<FoldEntered(self, given_values)>> \o r.events]

\* ExpressionBuiltinSingleArgBase.__init__
ExpressionBuiltinSingleArg(kind, value, source_ref) ==
    [kind |-> kind, value |-> value, source_ref |-> source_ref]

\* ExpressionBuiltinSingleArgBase.computeExpression
SingleArgComputeExpression(self, p3) ==
    IF self.value = NoNode
    THEN computeBuiltinSpec(self, <<>>, p3)
    ELSE computeBuiltinSpec(self, <<self.value>>, p3)

(***************************************************************************)
(* nodes/BuiltinTypeNodes.py                                               *)
(***************************************************************************)

\* (variant of ExpressionBuiltinBool.computeExpression that drops the
\* operand instead of keeping its side effects)
BoolComputeExpressionDropping(self, p3) ==
    IF self.value # NoNode /\ getTruthValue(self.value) # "None"
    THEN [ret |-> Change(makeConstantReplacementNode(
                             PyBool(getTruthValue(self.value) = "True"), self, p3).node,
                         "new_constant",
                         "Predicted truth value of built-in bool argument"),
          events |-> <<>>]
    ELSE SingleArgComputeExpression(self, p3)

\* ExpressionBuiltinBool.computeExpression
BoolComputeExpression(self, p3) ==
    LET value == self.value
    IN  IF value # NoNode /\ getTruthValue(value) # "None"
        THEN LET truth_value == PyBool(getTruthValue(value) = "True")
                 result == wrapExpressionWithNodeSideEffects(
                               makeConstantReplacementNode(truth_value, self, p3).node,
                               value)
             IN [ret |-> Change(result, "new_constant",
                                "Predicted truth value of built-in bool argument"),
                 events |-> <<>>]
        ELSE SingleArgComputeExpression(self, p3)

\* The text '0'
TextZero == <<48>>

\* (variant of the constructor that never fills in an omitted value)
ExpressionBuiltinIntLongNoDefault(kind, value, base, source_ref, base_only, p3) ==
    [kind |-> kind, value |-> value, base |-> base, source_ref |-> source_ref]

\* ExpressionBuiltinIntLongBase.__init__(value, base, source_ref): with
\* base_only_value an omitted value becomes the constant '0'.
ExpressionBuiltinIntLong(kind, value, base, source_ref, base_only, p3) ==
    LET self == [kind |-> kind, value |-> NoNode, base |-> NoNode,
                 source_ref |-> source_ref]
        given == IF value = NoNode /\ base_only
                 THEN makeConstantReplacementNode(PyStr(TextZero), self, p3).node
                 ELSE value
    IN [kind |-> kind, value |-> given, base |-> base, source_ref |-> source_ref]

\* self.builtin(base = 2): by the definition of base_only_value it raises
\* TypeError exactly when base_only_value is false.
NativeBaseOnly(name, base_only, p3) ==
    IF base_only THEN Returns([type |-> TypeNamed(name, p3), val |-> 0])
    ELSE Raises("TypeError")

\* (variant of ExpressionBuiltinIntLongBase.computeExpression that leaves
\* the node alone when only the base is given and the runtime refuses it)
IntLongComputeExpressionUnchanged(self, base_only, p3) ==
    LET value == self.value
        base == self.base
    IN  IF value = NoNode /\ base # NoNode /\ ~base_only
        THEN [ret |-> Change(self, "None", "None"), events |-> <<>>]
        ELSE computeBuiltinSpec(self,
                 IF value = NoNode THEN <<>>
                 ELSE IF base = NoNode THEN <<value>>
                 ELSE <<value, base>>, p3)

\* ExpressionBuiltinIntLongBase.computeExpression
IntLongComputeExpression(self, base_only, p3) ==
    LET value == self.value
        base == self.base
    IN  IF value = NoNode /\ base # NoNode /\ ~base_only
        THEN getCompileTimeComputationResult(self,
                 NativeBaseOnly(BuiltinName(self.kind), base_only, p3),
                 "built-in call with only base argument", p3)
        ELSE computeBuiltinSpec(self,
                 IF value = NoNode THEN <<>>
                 ELSE IF base = NoNode THEN <<value>>
                 ELSE <<value, base>>, p3)

\* ExpressionBuiltinUnicodeBase.__init__
ExpressionBuiltinUnicodeBase(kind, value, encoding, errors, source_ref) ==
    [kind |-> kind, value |-> value, encoding |-> encoding, errors |-> errors,
     source_ref |-> source_ref]

\* while args and args[-1] is None: del args[-1]
RECURSIVE TrimTrailingNone(_)
TrimTrailingNone(args) ==
    IF args # <<>> /\ args[Len(args)] = NoNode
    THEN TrimTrailingNone(SubSeq(args, 1, Len(args) - 1))
    ELSE args

\* (variant of ExpressionBuiltinUnicodeBase.computeExpression that notes
\* the escapes only after the fold left the node unchanged)
UnicodeComputeExpressionLate(self, p3) ==
    LET args == TrimTrailingNone(<<self.value, self.encoding, self.errors>>)
        folded == computeBuiltinSpec(self, args, p3)
    IN [ret |-> folded.ret,
        events |-> folded.events \o
                   (IF folded.ret.node = self
                    THEN [i \in 1..Len(args) |-> RemoveKnowledge(args[i])]
                         \o <<OnControlFlowEscape(self)>>
                    ELSE <<>>)]

\* ExpressionBuiltinUnicodeBase.computeExpression
UnicodeComputeExpression(self, p3) ==
    LET args == TrimTrailingNone(<<self.value, self.encoding, self.errors>>)
        folded == computeBuiltinSpec(self, args, p3)
    IN [ret |-> folded.ret,
        events |-> [i \in 1..Len(args) |-> RemoveKnowledge(args[i])]
                   \o <<OnControlFlowEscape(self)>>
                   \o folded.events]

\* ExpressionConstantRefBase.getStrValue: the node itself for a str, else a
\* constant node for str(self.constant), or None (NoNode) when that raises
\* UnicodeEncodeError.
ConstantGetStrValue(self, p3) ==
    IF self.constant.type = "str" THEN self
    ELSE LET text == PyStrOf(self.constant, p3)
         IN IF text.fault = "UnicodeEncodeError" THEN NoNode
            ELSE makeConstantRefNode(text.value, self.source_ref,
                                     self.user_provided, p3).node

\* getStrValue() of an operand: that of a constant, else what the node
\* predicts.
getStrValue(n, p3) ==
    IF isCompileTimeConstant(n) THEN ConstantGetStrValue(n, p3) ELSE n.str_value

\* (variant of ExpressionBuiltinStr.computeExpression that asks getStrValue
\* whatever the generic fold returned)
StrComputeExpressionOverriding(self, p3) ==
    LET folded == SingleArgComputeExpression(self, p3)
        str_value == IF self.value = NoNode THEN NoNode ELSE getStrValue(self.value, p3)
    IN  IF str_value # NoNode
        THEN [ret |-> Change(wrapExpressionWithNodeSideEffects(str_value, self.value),
                             "new_expression", "Predicted 'str' built-in result"),
              events |-> folded.events]
        ELSE folded

\* ExpressionBuiltinStr.computeExpression of Python 2
StrComputeExpression(self, p3) ==
    LET folded == SingleArgComputeExpression(self, p3)
    IN  IF folded.ret.node = self
        THEN LET str_value == getStrValue(self.value, p3)
             IN IF str_value # NoNode
                THEN [ret |-> Change(wrapExpressionWithNodeSideEffects(str_value, self.value),
                                     "new_expression", "Predicted 'str' built-in result"),
                      events |-> folded.events]
                ELSE folded
        ELSE folded

\* ExpressionBuiltinBytearray.__init__(value, source_ref)
ExpressionBuiltinBytearray(value, source_ref, p3) ==
    ExpressionBuiltinSingleArg("EXPRESSION_BUILTIN_BYTEARRAY",
        IF value = NoNode
        THEN makeConstantRefNode(PyBytesLiteral(<<>>, p3), source_ref, FALSE, p3).node
        ELSE value,
        source_ref)

\* (variant of ExpressionBuiltinBytearray.computeExpression that inherits
\* the generic fold of the single argument base class)
BytearrayComputeExpressionFolding(self, p3) ==
    IF isCompileTimeConstant(self.value)
    THEN [ret |-> Change(self.value, "new_constant", "Built-in call pre-computed."),
          events |-> <<>>]
    ELSE [ret |-> Change(self, "None", "None"), events |-> <<>>]

\* ExpressionBuiltinBytearray.computeExpression
BytearrayComputeExpression(self, p3) ==
    [ret |-> Change(self, "None", "None"), events |-> <<>>]

\* ExpressionBuiltinComplex.__init__
ExpressionBuiltinComplex(real, imag, source_ref) ==
    [kind |-> "EXPRESSION_BUILTIN_COMPLEX", real |-> real, imag |-> imag,
     source_ref |-> source_ref]

\* ExpressionBuiltinComplex.computeExpression
ComplexComputeExpression(self, p3) ==
    computeBuiltinSpec(self, <<self.real, self.imag>>, p3)

\* ExpressionBuiltinIter1: the node that iterates over its value child.
ExpressionBuiltinIter1(value, source_ref) ==
    [kind |-> "EXPRESSION_BUILTIN_ITER1", value |-> value, source_ref |-> source_ref]

(***************************************************************************)
(* Inputs of the node operations.                                          *)
(***************************************************************************)
SourceRefs == {"mod.py:1", "mod.py:2"}

TextA == <<97>>
TextAB == <<97, 98>>
TextTen == <<49, 48>>
TextInt == <<105, 110, 116>>

\* The constants handed to makeConstantRefNode: one or more of every
\* supported type of the running Python, and a frozenset, which is none.
ConstantInputs(p3) ==
    {PyNone, PyTrue, PyFalse, PyEllipsis, PyInt(0), PyInt(1), PyFloat(1),
     PyComplex(1, 2), PyStr(<<>>), PyStr(TextA), PyStr(TextTen),
     PyTuple(<<>>), PyTuple(<<PyInt(1), PyInt(2)>>),
     PyList(<<PyInt(2), PyInt(1)>>),
     PySet(<<PyInt(1), PyInt(2), PyInt(3)>>),
     PyDict(<<>>), PyDict(<< <<PyInt(1), PyInt(2)>> >>),
     PyDict(<< <<PyStr(TextA), PyInt(1)>>, <<PyStr(TextAB), PyInt(2)>> >>),
     PySlice(PyInt(0), PyInt(1), PyNone), PyType(TextInt),
     PyFrozenset(<<PyInt(1)>>)}
    \cup (IF p3 THEN {PyBytes(TextAB)}
          ELSE {PyLong(1), PyUnicode(TextA), PyUnicode(<<228>>)})

\* Constants around the two size thresholds: texts of MaxSizeText and one
\* more, other sized constants of MaxSizeOther and one more, and a byte
\* string between the two thresholds.
LargeConstantInputs(p3) ==
    {PyStr(Fill(97, n)) : n \in {MaxSizeText, MaxSizeText + 1}}
    \cup {PyTuple(Fill(PyNone, n)) : n \in {MaxSizeOther, MaxSizeOther + 1}}
    \cup {PyList(Fill(PyInt(0), MaxSizeOther + 1)),
          PySet([i \in 1..(MaxSizeOther + 1) |-> PyInt(i)]),
          PyBytesLiteral(Fill(97, MaxSizeOther + 1), p3)}
    \cup (IF p3 THEN {} ELSE {PyUnicode(Fill(97, MaxSizeText + 1)), PyLong(1000)})

\* A literal of the program: a constant node made for the parsed value.
Literal(v, source_ref, p3) == makeConstantRefNode(v, source_ref, TRUE, p3).node

\* Expressions that are no constants: a variable reference (nothing known),
\* a list display with a call inside (true, and the call must be kept), and
\* a call (nothing known, must be kept).
VariableRef(source_ref) ==
    OtherExpression("EXPRESSION_VARIABLE_REF", "None", <<>>, source_ref)
MakeListOfCall(source_ref) ==
    OtherExpression("EXPRESSION_MAKE_LIST", "True", <<"EXPRESSION_CALL">>, source_ref)
CallResult(source_ref) ==
    OtherExpression("EXPRESSION_CALL", "None", <<"EXPRESSION_CALL">>, source_ref)

\* An expression whose text form is predicted to be another expression, and
\* which holds a call that must be kept.
TextOperation(source_ref) ==
    [OtherExpression("EXPRESSION_OPERATION_BINARY", "None", <<"EXPRESSION_CALL">>,
                     source_ref)
        EXCEPT !.str_value = VariableRef(source_ref)]

OtherOperands(source_ref) ==
    {VariableRef(source_ref), MakeListOfCall(source_ref), CallResult(source_ref)}

\* Operands of the single argument constructors.
SingleArgOperands(source_ref, p3) ==
    {NoNode}
    \cup {Literal(v, source_ref, p3) :
            v \in {PyStr(<<>>), PyStr(TextAB), PyStr(TextTen), PyInt(1),
                   PyTuple(<<PyInt(1), PyInt(2)>>), PyList(<<PyInt(2), PyInt(1)>>),
                   PySet(<<PyInt(1), PyInt(2), PyInt(3)>>),
                   PyDict(<< <<PyInt(1), PyInt(2)>> >>),
                   PyBytesLiteral(TextAB, p3)}}
    \cup OtherOperands(source_ref) \cup {TextOperation(source_ref)}

SingleArgKinds(p3) ==
    {"EXPRESSION_BUILTIN_TUPLE", "EXPRESSION_BUILTIN_LIST", "EXPRESSION_BUILTIN_SET",
     "EXPRESSION_BUILTIN_FLOAT"}

\* Operands of int and long.
IntValueOperands(source_ref, p3) ==
    {NoNode, Literal(PyStr(TextAB), source_ref, p3), Literal(PyStr(TextTen), source_ref, p3),
     Literal(PyInt(1), source_ref, p3), VariableRef(source_ref)}
IntBaseOperands(source_ref, p3) ==
    {NoNode, Literal(PyInt(2), source_ref, p3), CallResult(source_ref)}
IntLongKinds(p3) ==
    IF p3 THEN {"EXPRESSION_BUILTIN_INT"}
    ELSE {"EXPRESSION_BUILTIN_INT", "EXPRESSION_BUILTIN_LONG"}

\* Operands of the text constructor with encoding and errors.
TextValueOperands(source_ref, p3) ==
    {NoNode, Literal(PyBytesLiteral(TextAB, p3), source_ref, p3),
     Literal(PyInt(1), source_ref, p3), VariableRef(source_ref)}
TextEncodingOperands(source_ref, p3) ==
    {NoNode, Literal(PyStr(TextAscii), source_ref, p3), CallResult(source_ref)}
TextErrorsOperands(source_ref, p3) ==
    {NoNode, Literal(PyStr(TextStrict), source_ref, p3), VariableRef(source_ref)}
UnicodeKind(p3) == IF p3 THEN "EXPRESSION_BUILTIN_STR" ELSE "EXPRESSION_BUILTIN_UNICODE"

\* Operands of complex.
RealOperands(source_ref, p3) ==
    {NoNode, Literal(PyInt(1), source_ref, p3), VariableRef(source_ref)}
ImagOperands(source_ref, p3) ==
    {NoNode, Literal(PyInt(2), source_ref, p3), CallResult(source_ref)}

(***************************************************************************)
(* The state machine: a node is built into the optimizer's slot, then the  *)
(* optimizer calls its operations; a computeExpression puts the node it    *)
(* returns into the slot.                                                  *)
(***************************************************************************)
NoChange == Change(NoNode, "None", "None")

\* The record of an operation: its name, the node it was called on, the
\* node passed as argument (the iter_node), the constant passed, the change
\* or node returned, the list returned, the fault raised ("None" for none)
\* and the notifications to the collection in order.
Operation(op, self, arg, constant, ret, list, fault, events) ==
    [op |-> op, self |-> self, arg |-> arg, constant |-> constant,
     ret |-> ret, list |-> list, fault |-> fault, events |-> events]

NoOperation == Operation("None", NoNode, NoNode, PyNone, NoChange, <<>>, "None", <<>>)

\* A constructor ran and made node n.
Built(n) == Operation("__init__", n, NoNode, PyNone, NoChange, <<>>, "None", <<>>)

\* computeExpression ran on self with result r.
Computed(self, r) ==
    Operation("computeExpression", self, NoNode, PyNone, r.ret, <<>>, "None", r.events)

Init ==
    /\ py3 \in BOOLEAN
    /\ base_only_value \in BOOLEAN
    /\ is_debug \in BOOLEAN
    /\ node = NoNode
    /\ built_from = <<>>
    /\ last = NoOperation
    /\ enc_value = <<>> /\ enc_result = <<>> /\ enc_done = FALSE
    /\ id_a = <<>> /\ id_b = <<>> /\ id_enc_a = <<>> /\ id_enc_b = <<>>
    /\ id_done = FALSE

Unbuilt == node = NoNode /\ last = NoOperation /\ built_from = <<>>

\* makeConstantRefNode(constant, source_ref, user_provided)
MakeConstant ==
    /\ Unbuilt
    /\ \E constant \in ConstantInputs(py3) \cup LargeConstantInputs(py3),
          source_ref \in SourceRefs, user_provided \in BOOLEAN :
          LET made == makeConstantRefNode(constant, source_ref, user_provided, py3)
              warnings == IF made.fault = "None"
                          THEN TooLargeWarnings(made.node.constant, source_ref,
                                                user_provided, is_debug)
                          ELSE <<>>
          IN /\ node' = made.node
             /\ last' = Operation("makeConstantRefNode", NoNode, NoNode, constant,
                                  Change(made.node, "None", "None"), <<>>,
                                  made.fault, warnings)
             /\ built_from' = <<constant>>
    /\ UNCHANGED <<py3, base_only_value, is_debug, enc_vars, id_vars>>

\* ExpressionBuiltinTuple, ...List, ...Set, ...Float, ...Bool(value, source_ref)
\* and, on Python 2, ExpressionBuiltinStr(value, source_ref)
MakeSingleArg ==
    /\ Unbuilt
    /\ \E source_ref \in SourceRefs :
       \E kind \in SingleArgKinds(py3) \cup {"EXPRESSION_BUILTIN_BOOL"}
                   \cup (IF py3 THEN {} ELSE {"EXPRESSION_BUILTIN_STR"}),
          value \in SingleArgOperands(source_ref, py3) :
          /\ node' = ExpressionBuiltinSingleArg(kind, value, source_ref)
          /\ built_from' = <<value>>
          /\ last' = Built(node')
    /\ UNCHANGED <<py3, base_only_value, is_debug, enc_vars, id_vars>>

\* ExpressionBuiltinBytearray(value, source_ref)
MakeBytearray ==
    /\ Unbuilt
    /\ \E source_ref \in SourceRefs :
       \E value \in SingleArgOperands(source_ref, py3) :
          /\ node' = ExpressionBuiltinBytearray(value, source_ref, py3)
          /\ built_from' = <<value>>
          /\ last' = Built(node')
    /\ UNCHANGED <<py3, base_only_value, is_debug, enc_vars, id_vars>>

\* ExpressionBuiltinInt(value, base, source_ref), ExpressionBuiltinLong(...)
MakeIntLong ==
    /\ Unbuilt
    /\ \E source_ref \in SourceRefs :
       \E kind \in IntLongKinds(py3), value \in IntValueOperands(source_ref, py3),
          base \in IntBaseOperands(source_ref, py3) :
          /\ node' = ExpressionBuiltinIntLong(kind, value, base, source_ref,
                                              base_only_value, py3)
          /\ built_from' = <<value, base>>
          /\ last' = Built(node')
    /\ UNCHANGED <<py3, base_only_value, is_debug, enc_vars, id_vars>>

\* ExpressionBuiltinUnicode(value, encoding, errors, source_ref), and
\* ExpressionBuiltinStr(...) of Python 3
MakeUnicode ==
    /\ Unbuilt
    /\ \E source_ref \in SourceRefs :
       \E value \in TextValueOperands(source_ref, py3),
          encoding \in TextEncodingOperands(source_ref, py3),
          errors \in TextErrorsOperands(source_ref, py3) :
          /\ node' = ExpressionBuiltinUnicodeBase(UnicodeKind(py3), value, encoding,
                                                  errors, source_ref)
          /\ built_from' = <<value, encoding, errors>>
          /\ last' = Built(node')
    /\ UNCHANGED <<py3, base_only_value, is_debug, enc_vars, id_vars>>

\* ExpressionBuiltinComplex(real, imag, source_ref)
MakeComplex ==
    /\ Unbuilt
    /\ \E source_ref \in SourceRefs :
       \E real \in RealOperands(source_ref, py3), imag \in ImagOperands(source_ref, py3) :
          /\ node' = ExpressionBuiltinComplex(real, imag, source_ref)
          /\ built_from' = <<real, imag>>
          /\ last' = Built(node')
    /\ UNCHANGED <<py3, base_only_value, is_debug, enc_vars, id_vars>>

\* An iteration over a constant: ExpressionBuiltinIter1 with a constant child.
MakeIter1 ==
    /\ Unbuilt
    /\ \E constant \in ConstantInputs(py3), source_ref \in SourceRefs,
          user_provided \in BOOLEAN :
          LET made == makeConstantRefNode(constant, source_ref, user_provided, py3)
          IN /\ made.fault = "None"
             /\ node' = ExpressionBuiltinIter1(made.node, source_ref)
             /\ built_from' = <<made.node>>
             /\ last' = Built(node')
    /\ UNCHANGED <<py3, base_only_value, is_debug, enc_vars, id_vars>>

\* The optimizer calls computeExpression on a constant.
ComputeConstant ==
    /\ isCompileTimeConstant(node)
    /\ last' = Computed(node, ConstantComputeExpression(node))
    /\ node' = last'.ret.node
    /\ UNCHANGED <<py3, base_only_value, is_debug, built_from, enc_vars, id_vars>>

\* ... on a tuple, list, set or float constructor.
ComputeSingleArg ==
    /\ node.kind \in SingleArgKinds(py3)
    /\ last' = Computed(node, SingleArgComputeExpression(node, py3))
    /\ node' = last'.ret.node
    /\ UNCHANGED <<py3, base_only_value, is_debug, built_from, enc_vars, id_vars>>

\* ... on a bool constructor.
ComputeBool ==
    /\ node.kind = "EXPRESSION_BUILTIN_BOOL"
    /\ last' = Computed(node, BoolComputeExpression(node, py3))
    /\ node' = last'.ret.node
    /\ UNCHANGED <<py3, base_only_value, is_debug, built_from, enc_vars, id_vars>>

\* ... on an int or long constructor.
ComputeIntLong ==
    /\ node.kind \in {"EXPRESSION_BUILTIN_INT", "EXPRESSION_BUILTIN_LONG"}
    /\ last' = Computed(node, IntLongComputeExpression(node, base_only_value, py3))
    /\ node' = last'.ret.node
    /\ UNCHANGED <<py3, base_only_value, is_debug, built_from, enc_vars, id_vars>>

\* ... on a text constructor with encoding and errors.
ComputeUnicode ==
    /\ \/ node.kind = "EXPRESSION_BUILTIN_UNICODE"
       \/ py3 /\ node.kind = "EXPRESSION_BUILTIN_STR"
    /\ last' = Computed(node, UnicodeComputeExpression(node, py3))
    /\ node' = last'.ret.node
    /\ UNCHANGED <<py3, base_only_value, is_debug, built_from, enc_vars, id_vars>>

\* ... on the str constructor of Python 2.
ComputeStr ==
    /\ ~py3
    /\ node.kind = "EXPRESSION_BUILTIN_STR"
    /\ last' = Computed(node, StrComputeExpression(node, py3))
    /\ node' = last'.ret.node
    /\ UNCHANGED <<py3, base_only_value, is_debug, built_from, enc_vars, id_vars>>

\* ... on a bytearray constructor.
ComputeBytearray ==
    /\ node.kind = "EXPRESSION_BUILTIN_BYTEARRAY"
    /\ last' = Computed(node, BytearrayComputeExpression(node, py3))
    /\ node' = last'.ret.node
    /\ UNCHANGED <<py3, base_only_value, is_debug, built_from, enc_vars, id_vars>>

\* ... on a complex constructor.
ComputeComplex ==
    /\ node.kind = "EXPRESSION_BUILTIN_COMPLEX"
    /\ last' = Computed(node, ComplexComputeExpression(node, py3))
    /\ node' = last'.ret.node
    /\ UNCHANGED <<py3, base_only_value, is_debug, built_from, enc_vars, id_vars>>

\* The iteration node asks its constant child: computeExpressionIter1.
ComputeIter1 ==
    /\ node.kind = "EXPRESSION_BUILTIN_ITER1"
    /\ isCompileTimeConstant(node.value)
    /\ LET r == ConstantComputeExpressionIter1(node.value, node, py3)
       IN /\ last' = Operation("computeExpressionIter1", node.value, node, PyNone,
                               r.ret, <<>>, "None", r.events)
          /\ node' = r.ret.node
    /\ UNCHANGED <<py3, base_only_value, is_debug, built_from, enc_vars, id_vars>>

\* getMappingPairs() on a constant
GetMappingPairs ==
    /\ isCompileTimeConstant(node)
    /\ LET r == getMappingPairs(node, py3)
       IN last' = Operation("getMappingPairs", node, NoNode, PyNone, NoChange,
                            r.value, r.fault, <<>>)
    /\ UNCHANGED <<node, py3, base_only_value, is_debug, built_from, enc_vars, id_vars>>

\* getMappingStringKeyPairs() on a constant
GetMappingStringKeyPairs ==
    /\ isCompileTimeConstant(node)
    /\ LET r == getMappingStringKeyPairs(node, py3)
       IN last' = Operation("getMappingStringKeyPairs", node, NoNode, PyNone,
                            NoChange, r.value, r.fault, <<>>)
    /\ UNCHANGED <<node, py3, base_only_value, is_debug, built_from, enc_vars, id_vars>>

\* getIterationValue(count) on a constant
GetIterationValue ==
    /\ isCompileTimeConstant(node)
    /\ \E count \in 0..MaxCount :
         LET r == getIterationValue(node, count, py3)
         IN last' = Operation("getIterationValue", node, NoNode, PyInt(count),
                              Change(r.node, "None", "None"), <<>>, r.fault, <<>>)
    /\ UNCHANGED <<node, py3, base_only_value, is_debug, built_from, enc_vars, id_vars>>

\* getStrValue() on a constant
GetStrValue ==
    /\ isCompileTimeConstant(node)
    /\ last' = Operation("getStrValue", node, NoNode, PyNone,
                         Change(ConstantGetStrValue(node, py3), "None", "None"),
                         <<>>, "None", <<>>)
    /\ UNCHANGED <<node, py3, base_only_value, is_debug, built_from, enc_vars, id_vars>>

\* getIterationValues() on a constant
GetIterationValues ==
    /\ isCompileTimeConstant(node)
    /\ LET r == getIterationValues(node, py3)
       IN last' = Operation("getIterationValues", node, NoNode, PyNone, NoChange,
                            r.value, r.fault, <<>>)
    /\ UNCHANGED <<node, py3, base_only_value, is_debug, built_from, enc_vars, id_vars>>

Next ==
    \/ MakeConstant \/ MakeSingleArg \/ MakeBytearray \/ MakeIntLong
    \/ MakeUnicode \/ MakeComplex \/ MakeIter1
    \/ ComputeConstant \/ ComputeSingleArg \/ ComputeBool \/ ComputeIntLong
    \/ ComputeUnicode \/ ComputeStr \/ ComputeBytearray \/ ComputeComplex
    \/ ComputeIter1
    \/ GetMappingPairs \/ GetMappingStringKeyPairs
    \/ GetIterationValue \/ GetIterationValues \/ GetStrValue

Spec == Init /\ [][Next]_vars

(***************************************************************************)
(* The string encoder alone.                                               *)
(***************************************************************************)
InitStr ==
    /\ enc_value \in ShortPayloads \cup LongPayloads
    /\ enc_result = <<>>
    /\ enc_done = FALSE
    /\ id_a = <<>> /\ id_b = <<>> /\ id_enc_a = <<>> /\ id_enc_b = <<>>
    /\ id_done = FALSE
    /\ py3 = TRUE /\ base_only_value = FALSE /\ is_debug = FALSE
    /\ node = NoNode /\ built_from = <<>>
    /\ last = NoOperation

\* A call of encodePythonStringToC(enc_value).
EncodeString ==
    /\ ~enc_done
    /\ enc_result' = encodePythonStringToC(enc_value)
    /\ enc_done' = TRUE
    /\ UNCHANGED enc_value
    /\ UNCHANGED <<id_vars, node_vars>>

NextStr == EncodeString

SpecStr == InitStr /\ [][NextStr]_vars

(***************************************************************************)
(* The identifier encoder alone.                                           *)
(***************************************************************************)
InitId ==
    /\ id_a \in Identifiers
    /\ id_b \in Identifiers
    /\ id_enc_a = <<>>
    /\ id_enc_b = <<>>
    /\ id_done = FALSE
    /\ enc_value = <<>> /\ enc_result = <<>> /\ enc_done = FALSE
    /\ py3 = TRUE /\ base_only_value = FALSE /\ is_debug = FALSE
    /\ node = NoNode /\ built_from = <<>>
    /\ last = NoOperation

\* Two calls of encodePythonIdentifierToC.
EncodeIdentifiers ==
    /\ ~id_done
    /\ id_enc_a' = encodePythonIdentifierToC(id_a)
    /\ id_enc_b' = encodePythonIdentifierToC(id_b)
    /\ id_done' = TRUE
    /\ UNCHANGED <<id_a, id_b>>
    /\ UNCHANGED <<enc_vars, node_vars>>

NextId == EncodeIdentifiers

SpecId == InitId /\ [][NextId]_vars

(***************************************************************************)
(* Properties.                                                             *)
(***************************************************************************)

\* C1: decoding the text produced by encodePythonStringToC as a sequence of C
\* string literals gives back exactly the bytes that were encoded, below and
\* above the chunk size.
C1_RoundTrip ==
    enc_done => LET d == DecodeC(enc_result) IN d.ok /\ d.bytes = enc_value

\* C1 witness: a payload longer than one chunk, with an escaped byte last in
\* the first chunk and a digit first in the second, was encoded.
C1_Witness ==
    /\ enc_done
    /\ Len(enc_value) > ChunkSize
    /\ enc_value[ChunkSize] = 1
    /\ enc_value[ChunkSize + 1] = 49

\* C2: encodePythonIdentifierToC is reversible: two different identifiers
\* never encode to the same text.
C2_Reversible ==
    (id_done /\ id_a # id_b) => id_enc_a # id_enc_b

\* The kind the constant's exact type stands for.
KindForType(type) ==
    CASE type = "int" -> "EXPRESSION_CONSTANT_INT_REF"
      [] type = "str" -> "EXPRESSION_CONSTANT_STR_REF"
      [] type = "float" -> "EXPRESSION_CONSTANT_FLOAT_REF"
      [] type = "long" -> "EXPRESSION_CONSTANT_LONG_REF"
      [] type = "unicode" -> "EXPRESSION_CONSTANT_UNICODE_REF"
      [] type = "bytes" -> "EXPRESSION_CONSTANT_BYTES_REF"
      [] type = "tuple" -> "EXPRESSION_CONSTANT_TUPLE_REF"
      [] type = "list" -> "EXPRESSION_CONSTANT_LIST_REF"
      [] type = "set" -> "EXPRESSION_CONSTANT_SET_REF"
      [] type = "complex" -> "EXPRESSION_CONSTANT_COMPLEX_REF"
      [] type = "slice" -> "EXPRESSION_CONSTANT_SLICE_REF"
      [] type = "type" -> "EXPRESSION_CONSTANT_TYPE_REF"
      [] OTHER -> "None"

\* C3: makeConstantRefNode gives every value exactly one kind: the four
\* singletons their own kinds, a dict the empty-dict kind or the dict kind,
\* every other supported exact type its kind, and a value of any other type
\* an assertion fault and no node.
C3_OneKindPerValue ==
    last.op = "makeConstantRefNode" =>
        LET constant == last.constant
            made == last.ret.node
            expected ==
                IF constant.type = "NoneType" THEN "EXPRESSION_CONSTANT_NONE_REF"
                ELSE IF constant.type = "bool"
                THEN (IF constant.val THEN "EXPRESSION_CONSTANT_TRUE_REF"
                      ELSE "EXPRESSION_CONSTANT_FALSE_REF")
                ELSE IF constant.type = "ellipsis" THEN "EXPRESSION_CONSTANT_ELLIPSIS_REF"
                ELSE IF constant.type = "dict"
                THEN (IF Len(constant.val) = 0 THEN "EXPRESSION_CONSTANT_DICT_EMPTY_REF"
                      ELSE "EXPRESSION_CONSTANT_DICT_REF")
                ELSE KindForType(constant.type)
        IN  IF expected = "None"
            THEN last.fault = "AssertionError" /\ made = NoNode /\ node = NoNode
            ELSE /\ last.fault = "None"
                 /\ made.kind = expected
                 /\ made.constant = constant
                 /\ node = made

\* C3 witness: a frozenset was handed to makeConstantRefNode and refused.
C3_Witness ==
    /\ last.op = "makeConstantRefNode"
    /\ last.constant.type = "frozenset"
    /\ last.fault = "AssertionError"

\* C4: computeExpression of a bytearray constructor returns the node itself
\* with no tag and no description, whatever the operand and however often
\* it is called, and tells the collection nothing; built with the operand
\* omitted, its value is an empty bytes constant.
C4_BytearrayNeverFolds ==
    /\ (last.op = "computeExpression" /\ last.self.kind = "EXPRESSION_BUILTIN_BYTEARRAY")
         => /\ last.ret = Change(last.self, "None", "None")
            /\ last.events = <<>>
            /\ node = last.self
    /\ (node.kind = "EXPRESSION_BUILTIN_BYTEARRAY" /\ built_from = <<NoNode>>)
         => /\ isCompileTimeConstant(node.value)
            /\ node.value.constant = PyBytesLiteral(<<>>, py3)

\* C4 witness: computeExpression ran on bytearray(b"ab").
C4_Witness ==
    /\ last.op = "computeExpression"
    /\ last.self.kind = "EXPRESSION_BUILTIN_BYTEARRAY"
    /\ isCompileTimeConstant(last.self.value)
    /\ last.self.value.constant.type = PyBytesLiteral(TextAB, py3).type
    /\ last.self.value.constant.val = TextAB
    /\ node.kind = "EXPRESSION_BUILTIN_BYTEARRAY"

\* Whether the generic fold was entered during the last operation.
FoldWasEntered == \E i \in 1..Len(last.events) : last.events[i].ev = "computeBuiltinSpec"

\* C5: computeExpression of a bool constructor whose operand is present
\* with a known truth value returns the constant of that truth value,
\* wrapped with the operand's side effects, tagged new_constant, and the
\* generic fold is not entered; otherwise the result is that of the generic
\* fold.
C5_BoolPrediction ==
    (last.op = "computeExpression" /\ last.self.kind = "EXPRESSION_BUILTIN_BOOL") =>
        LET self == last.self
            value == self.value
        IN  IF value # NoNode /\ getTruthValue(value) # "None"
            THEN LET predicted ==
                        [kind |-> IF getTruthValue(value) = "True"
                                  THEN "EXPRESSION_CONSTANT_TRUE_REF"
                                  ELSE "EXPRESSION_CONSTANT_FALSE_REF",
                         constant |-> PyBool(getTruthValue(value) = "True"),
                         user_provided |-> FALSE,
                         source_ref |-> self.source_ref]
                     kept == extractSideEffects(value)
                 IN /\ last.ret.tags = "new_constant"
                    /\ last.ret.node =
                         IF kept = <<>> THEN predicted
                         ELSE [kind |-> "EXPRESSION_SIDE_EFFECTS", side_effects |-> kept,
                               expression |-> predicted, source_ref |-> value.source_ref]
                    /\ ~FoldWasEntered
            ELSE LET generic == SingleArgComputeExpression(self, py3)
                 IN last.ret = generic.ret /\ last.events = generic.events

\* C5 witness: bool("") was computed and became the constant False.
C5_Witness ==
    /\ last.op = "computeExpression"
    /\ last.self.kind = "EXPRESSION_BUILTIN_BOOL"
    /\ isCompileTimeConstant(last.self.value)
    /\ last.self.value.constant.type = "str"
    /\ last.self.value.constant.val = <<>>
    /\ last.ret.node.kind = "EXPRESSION_CONSTANT_FALSE_REF"

IntLongNodeKinds == {"EXPRESSION_BUILTIN_INT", "EXPRESSION_BUILTIN_LONG"}

\* An int or long constructor built with the value omitted and a base given
\* has just been computed.
BaseOnlyComputed ==
    /\ last.op = "computeExpression"
    /\ last.self.kind \in IntLongNodeKinds
    /\ built_from[1] = NoNode
    /\ built_from[2] # NoNode

\* C6 as stated: with the value omitted and the base present, a runtime that
\* refuses a base-only call makes computeExpression leave the node unchanged.
C6_UnchangedWhenRefused ==
    (BaseOnlyComputed /\ ~base_only_value) =>
        /\ last.ret = Change(last.self, "None", "None")
        /\ node = last.self

\* The constant '0' the constructor puts in place of an omitted value.
ZeroTextNode(self) ==
    [kind |-> "EXPRESSION_CONSTANT_STR_REF", constant |-> PyStr(<<48>>),
     user_provided |-> FALSE, source_ref |-> self.source_ref]

\* C6, as the code has it: with the value omitted and the base present, a runtime that
\* accepts a base-only call has the constant '0' as value and the generic
\* fold is entered with (value, base); a runtime that refuses it has the
\* call evaluated all the same: the node becomes a raise of TypeError that
\* keeps the side effects of the base, tagged new_raise, the exception is
\* notified, and the generic fold is not entered.
C6_BaseOnly ==
    BaseOnlyComputed =>
        LET self == last.self
        IN  IF base_only_value
            THEN /\ self.value = ZeroTextNode(self)
                 /\ last.events[1] = FoldEntered(self, <<self.value, self.base>>)
            ELSE LET raise == [kind |-> "EXPRESSION_RAISE_EXCEPTION",
                               exception_type |-> "TypeError",
                               source_ref |-> self.source_ref]
                     kept == extractSideEffects(self.base)
                 IN /\ self.value = NoNode
                    /\ last.ret.tags = "new_raise"
                    /\ last.ret.node =
                         IF kept = <<>> THEN raise
                         ELSE [kind |-> "EXPRESSION_SIDE_EFFECTS", side_effects |-> kept,
                               expression |-> raise, source_ref |-> self.source_ref]
                    /\ last.events = <<OnExceptionRaiseExit("TypeError")>>
                    /\ node = last.ret.node

\* C6 witness: int(base=2) was computed on a runtime that refuses it.
C6_Witness ==
    /\ BaseOnlyComputed
    /\ ~base_only_value
    /\ isCompileTimeConstant(last.self.base)
    /\ last.ret.tags = "new_raise"

\* An int or long constructor built with value and base omitted has just
\* been computed.
NoArgumentComputed ==
    /\ last.op = "computeExpression"
    /\ last.self.kind \in IntLongNodeKinds
    /\ built_from = <<NoNode, NoNode>>

\* The constant 0 of the constructor's type made for the node.
ZeroNode(self) ==
    IF self.kind = "EXPRESSION_BUILTIN_LONG"
    THEN [kind |-> "EXPRESSION_CONSTANT_LONG_REF", constant |-> PyLong(0),
          user_provided |-> FALSE, source_ref |-> self.source_ref]
    ELSE [kind |-> "EXPRESSION_CONSTANT_INT_REF", constant |-> PyInt(0),
          user_provided |-> FALSE, source_ref |-> self.source_ref]

\* C7 as stated: built with value and base omitted, the fold is handed the
\* empty argument list and the node folds to the constant 0, whatever
\* base_only_value is.
C7_EmptyArgumentList ==
    NoArgumentComputed =>
        /\ last.events = <<FoldEntered(last.self, <<>>)>>
        /\ last.ret.tags = "new_constant"
        /\ last.ret.node = ZeroNode(last.self)

\* C7, as the code has it: built with value and base omitted, the node folds to the
\* constant 0 tagged new_constant whatever base_only_value is; the argument
\* list handed to the fold is empty when base_only_value is false, and is
\* the constant '0' the constructor put in the value slot when it is true.
C7_ZeroArgumentForm ==
    NoArgumentComputed =>
        /\ last.events =
             <<FoldEntered(last.self,
                   IF base_only_value THEN <<ZeroTextNode(last.self)>> ELSE <<>>)>>
        /\ last.ret.tags = "new_constant"
        /\ last.ret.node = ZeroNode(last.self)
        /\ node = last.ret.node

\* C7 witness: int() was computed on a runtime that accepts a base-only call.
C7_Witness ==
    /\ NoArgumentComputed
    /\ base_only_value
    /\ last.ret.tags = "new_constant"

\* A text constructor with encoding and errors has just been computed: the
\* unicode constructor of Python 2 or the str constructor of Python 3.
TextConstructorComputed ==
    /\ last.op = "computeExpression"
    /\ \/ last.self.kind = "EXPRESSION_BUILTIN_UNICODE"
       \/ py3 /\ last.self.kind = "EXPRESSION_BUILTIN_STR"

\* C8: in every computeExpression of a text constructor with encoding and
\* errors, removeKnowledge is called for each present operand and
\* onControlFlowEscape once, for the node, all before the one entry into
\* the fold, whatever the fold then does.
C8_EscapesBeforeFold ==
    TextConstructorComputed =>
        LET self == last.self
            ev == last.events
            at(name) == {i \in 1..Len(ev) : ev[i].ev = name}
            fold == at("computeBuiltinSpec")
        IN  /\ Cardinality(fold) = 1
            /\ \A operand \in {self.value, self.encoding, self.errors} \ {NoNode} :
                 \E i \in at("removeKnowledge") :
                    /\ ev[i].node = operand
                    /\ \A f \in fold : i < f
            /\ Cardinality(at("onControlFlowEscape")) = 1
            /\ \A i \in at("onControlFlowEscape") :
                 /\ ev[i].node = self
                 /\ \A f \in fold : i < f

\* C8 witness: a text constructor call was computed and became a raise.
C8_Witness ==
    /\ TextConstructorComputed
    /\ last.ret.tags = "new_raise"
    /\ last.self.encoding # NoNode

\* C9: for a mapping constant of n items, getMappingPairs returns the n
\* pairs of key node and value node in iteration order and
\* getMappingStringKeyPairs the n pairs of raw key and value node; neither
\* raises.
C9_MappingPairs ==
    (last.op \in {"getMappingPairs", "getMappingStringKeyPairs"} /\ isMapping(last.self)) =>
        LET items == last.self.constant.val
        IN  /\ last.fault = "None"
            /\ Len(last.list) = Len(items)
            /\ \A i \in 1..Len(items) :
                 /\ isCompileTimeConstant(last.list[i][2])
                 /\ last.list[i][2].constant = items[i][2]
                 /\ IF last.op = "getMappingPairs"
                    THEN /\ isCompileTimeConstant(last.list[i][1])
                         /\ last.list[i][1].constant = items[i][1]
                    ELSE last.list[i][1] = items[i][1]

IterableTypes == {"str", "unicode", "bytes", "tuple", "list", "set", "frozenset", "dict"}

\* C10: computeExpressionIter1 on a constant has three outcomes.  A list,
\* set, frozenset or dict is replaced by the tuple constant of its elements
\* with the same user_provided and source reference, the iteration node is
\* returned tagged new_constant, and nothing is notified; a constant that
\* is not iterable is kept, TypeError is notified and no tag returned; any
\* other constant is kept, nothing is notified and no tag returned.
C10_Iter1Outcomes ==
    last.op = "computeExpressionIter1" =>
        LET self == last.self
            iter_node == last.arg
            constant == self.constant
            elements == IF constant.type = "dict"
                        THEN [i \in 1..Len(constant.val) |-> constant.val[i][1]]
                        ELSE constant.val
        IN  IF constant.type \in {"list", "set", "frozenset", "dict"}
            THEN /\ last.ret.tags = "new_constant"
                 /\ last.ret.node =
                      [iter_node EXCEPT !.value =
                          [kind |-> "EXPRESSION_CONSTANT_TUPLE_REF",
                           constant |-> PyTuple(elements),
                           user_provided |-> self.user_provided,
                           source_ref |-> self.source_ref]]
                 /\ last.events = <<>>
                 /\ node = last.ret.node
            ELSE IF constant.type \notin IterableTypes
            THEN /\ last.ret = Change(iter_node, "None", "None")
                 /\ last.events = <<OnExceptionRaiseExit("TypeError")>>
                 /\ node = iter_node
            ELSE /\ last.ret = Change(iter_node, "None", "None")
                 /\ last.events = <<>>
                 /\ node = iter_node

\* C10 witness: the iteration over the constant set {1, 2, 3} was rewritten.
C10_Witness ==
    /\ last.op = "computeExpressionIter1"
    /\ last.self.constant.type = "set"
    /\ Len(last.self.constant.val) = 3
    /\ last.self.user_provided
    /\ last.ret.tags = "new_constant"


\* C11: getIterationValue(index) on an iterable constant fails with an
\* assertion fault when index is not below the iteration length, and for
\* every other index returns a constant node made for the element at that
\* position of the iteration.
C11_IterationValue ==
    (last.op = "getIterationValue" /\ isIterableConstant(last.self.constant)) =>
        LET elements == IterationElements(last.self.constant)
            index == last.constant.val
        IN  IF index >= Len(elements)
            THEN last.fault = "AssertionError"
            ELSE /\ last.fault = "None"
                 /\ isCompileTimeConstant(last.ret.node)
                 /\ last.ret.node.constant = elements[index + 1]

\* C12: folding reaches a fixed point in one step: every computeExpression
\* on a constant node returns that node with no tag and no description and
\* notifies nothing, whether the constant was a literal or the result of
\* folding a constructor call, so the node stays what it is.
C12_FixedPoint ==
    [][(isCompileTimeConstant(node) /\ last'.op = "computeExpression")
         => /\ last'.self = node
            /\ last'.ret = Change(node, "None", "None")
            /\ last'.events = <<>>
            /\ node' = node]_vars

\* C12 witness: tuple(x) with x a constant tuple was folded to a constant,
\* and computeExpression then ran on that constant.
C12_Witness ==
    /\ Len(built_from) = 1
    /\ "kind" \in DOMAIN built_from[1]
    /\ built_from[1].kind = "EXPRESSION_CONSTANT_TUPLE_REF"
    /\ last.op = "computeExpression"
    /\ last.self.kind = "EXPRESSION_CONSTANT_TUPLE_REF"
    /\ last.self.user_provided = FALSE
    /\ node = last.self

\* Whether the last operation logged the too large constant warning.
Warned == \E i \in 1..Len(last.events) : last.events[i].ev = "warning"

\* Whether the constant exceeds the threshold of its type: 1000 for a str or
\* unicode, 256 for any other constant with a length.
AboveThreshold(constant) ==
    /\ isIterableConstant(constant)
    /\ Len(constant.val) > (IF constant.type \in {"str", "unicode"} THEN 1000 ELSE 256)

\* C13 as stated: making a constant node whose payload is above the
\* threshold with user_provided false logs the too large constant warning;
\* with user_provided true, or a payload without a length, it never does.
C13_WarnsWhenTooLarge ==
    (last.op = "makeConstantRefNode" /\ last.fault = "None") =>
        (Warned <=> (~last.ret.node.user_provided /\ AboveThreshold(last.constant)))

\* C13, as the code has it: the warning is logged exactly when isDebug()
\* is true, user_provided is false and the payload is above the threshold
\* of its type; without isDebug() nothing is logged whatever the size.
C13_WarnsInDebugOnly ==
    (last.op = "makeConstantRefNode" /\ last.fault = "None") =>
        (Warned <=> /\ is_debug
                    /\ ~last.ret.node.user_provided
                    /\ AboveThreshold(last.constant))

\* C13 witness: with isDebug(), a str of 1001 characters that is not user
\* provided was made a constant node and the warning was logged.
C13_Witness ==
    /\ last.op = "makeConstantRefNode"
    /\ is_debug
    /\ last.constant.type = "str"
    /\ Len(last.constant.val) = 1001
    /\ ~last.ret.node.user_provided
    /\ Warned

\* C14: whenever a constructor node enters the generic fold, the argument
\* list it hands over holds the present operands of the node in slot order
\* and no omitted slot.
C14_OnlyPresentOperands ==
    last.op = "computeExpression" =>
        \A i \in 1..Len(last.events) :
            last.events[i].ev = "computeBuiltinSpec" =>
                /\ \A j \in 1..Len(last.events[i].args) : last.events[i].args[j] # NoNode
                /\ last.events[i].args = SelectSeq(ChildrenOf(last.self), IsPresent)

\* C15: computeExpression of the str constructor of Python 2 runs the
\* generic fold first; a replacement made by the fold is the result as it
\* is; only when the fold returned the node itself is getStrValue of the
\* operand asked, and then a node it yields, wrapped with the operand's
\* side effects, is the result tagged new_expression, and without one the
\* node is returned with no tag.
C15_StrOracleAfterFold ==
    (last.op = "computeExpression" /\ ~py3 /\ last.self.kind = "EXPRESSION_BUILTIN_STR") =>
        LET self == last.self
            generic == SingleArgComputeExpression(self, py3)
        IN  /\ last.events = generic.events
            /\ IF generic.ret.node # self
               THEN last.ret = generic.ret
               ELSE LET str_value == getStrValue(self.value, py3)
                        kept == extractSideEffects(self.value)
                    IN IF str_value # NoNode
                       THEN /\ last.ret.tags = "new_expression"
                            /\ last.ret.node =
                                 IF kept = <<>> THEN str_value
                                 ELSE [kind |-> "EXPRESSION_SIDE_EFFECTS",
                                       side_effects |-> kept,
                                       expression |-> str_value,
                                       source_ref |-> self.value.source_ref]
                       ELSE last.ret = Change(self, "None", "None")

\* C15 witness: str(x) of an operand that is no constant and whose text
\* form is predicted was replaced by the prediction, keeping the call.
C15_Witness ==
    /\ last.op = "computeExpression"
    /\ ~py3
    /\ last.self.kind = "EXPRESSION_BUILTIN_STR"
    /\ last.ret.tags = "new_expression"
    /\ last.ret.node.kind = "EXPRESSION_SIDE_EFFECTS"

\* C16: the text encodePythonStringToC produces holds printable ASCII
\* characters only (32..126): no byte below 32 and no byte from 127 to 255
\* is emitted raw.
C16_PrintableOutput ==
    enc_done => \A i \in 1..Len(enc_result) : enc_result[i] >= 32 /\ enc_result[i] <= 126

\* C17: whenever canPredictIterationValues() is true of a constant node,
\* getIterationValue(i) for 0 <= i < getIterationLength() returns without
\* fault a node of the same value as the i-th node of getIterationValues(),
\* for sets and dicts as for the other iterable constants.
C17_IterationValuesAgree ==
    (/\ last.op = "getIterationValue"
     /\ canPredictIterationValues(last.self)
     /\ last.constant.val < getIterationLength(last.self)) =>
        LET all == getIterationValues(last.self, py3)
        IN  /\ all.fault = "None"
            /\ last.fault = "None"
            /\ last.ret.node.constant = all.value[last.constant.val + 1].constant

\* C18: in computeExpression of a text constructor with encoding and
\* errors, the nodes handed to removeKnowledge are exactly the present
\* operands; an omitted operand is never handed to it.
C18_NoOmittedOperandEscapes ==
    TextConstructorComputed =>
        {last.events[i].node :
            i \in {j \in 1..Len(last.events) : last.events[j].ev = "removeKnowledge"}}
        = {last.self.value, last.self.encoding, last.self.errors} \ {NoNode}

====
